---- MODULE Spec2Model ----
(***************************************************************************)
(* Electric-vehicle charge optimisation: the two notebooks                 *)
(*   08_31_Model_1_charge_profile_based_on_electricity_cost      (Model 1) *)
(*   09_02_Model_2_charge_profile_with_charge_dependant_battery_degradation*)
(*                                                                (Model 2) *)
(* as a state machine over the cells of a notebook run.                    *)
(*                                                                         *)
(* Units.  All quantities are integers:                                    *)
(*   energy / power per slot  : Wh          (1 kWh = 1000)                 *)
(*   state of charge fraction : tenths      (0.30 = 3)                     *)
(*   price                    : 1e-4 EUR/kWh (0.1377 = 1377)               *)
(*   money                    : 1e-7 EUR                                   *)
(*   degradation ratio        : 1e-11       (10**-5 = 1000000)             *)
(* The horizon, 24 slots in the notebooks, is HORIZON slots here.          *)
(*                                                                         *)
(* Specifications:                                                         *)
(*   Spec     both notebooks, cell by cell, over small configurations      *)
(*   SpecCost the cost functions of Model 2 called on their own            *)
(*   SpecRef  Model 2 on the 24 slots and the constants of its notebook    *)
(*   SpecRerun Model 2 run again in the same kernel                        *)
(*   SpecAnyLength the cost functions on lists of any length               *)
(*   SpecCell4 cell 4 of Model 2 statement by statement, with its objects  *)
(***************************************************************************)
EXTENDS Integers, Sequences, FiniteSets

VARIABLES
    nb,                 \* which notebook the kernel runs: "M1" or "M2"
    pc,                 \* the last cell (or statement group) that has run
    cfg,                \* the configuration constants of the constants cell
    lb, ub,             \* Model 2: the names lb, ub as last bound
    bounds,             \* Model 2: Bounds(lb, ub)
    m,                  \* Model 2: the matrix of the linear constraint
    linear_constraint,  \* Model 2: LinearConstraint(m, lb, ub)
    p0,                 \* Model 2: the initial guess
    res,                \* Model 2: what minimize returned
    variables,          \* Model 1: the NumVars
    ct_charge_vehicle_before_tmax,  \* Model 1: the terminal constraint
    ct_bounded_charge,  \* Model 1: the 24 prefix constraints, in order
    objective,          \* Model 1: the objective coefficients
    lp,                 \* Model 1: what solver.Solve() left behind
    out,                \* what the last cell printed
    arg,                \* the profile handed to a cost function
    ret,                \* the cost function called and what it returned
    iterate,            \* the profile the minimiser is building, slot by slot
    previous,           \* what the earlier runs of the notebook built, in order
    heap                \* cell 4 statement by statement: the objects and names

m2vars == <<lb, ub, bounds, m, linear_constraint, p0, res>>

m1vars == <<variables, ct_charge_vehicle_before_tmax, ct_bounded_charge,
            objective, lp>>

callvars == <<arg, ret, iterate, previous>>

vars == <<nb, pc, cfg, m2vars, m1vars, out, callvars, heap>>

-----------------------------------------------------------------------------
(* Bounds of the model and program constants *)

\* The number of slots (24 in the notebooks).
HORIZON == 4

\* How many times the notebook is run again in one kernel.
MaxReruns == 1

\* How many calls of the cost functions follow one another on one profile.
MaxCalls == 2

LOW_COST == 1377
HIGH_COST == 1781

\* Wh per kWh: p0 = [1]*24 is 1 kWh in every slot.
WH_PER_KWH == 1000

\* round(rx, 2) on kWh keeps multiples of 10 Wh.
PROFILE_ROUND_WH == 10

\* round(cost, 1) on EUR keeps multiples of 0.1 EUR = 1000000 * 1e-7 EUR.
COST_ROUND == 1000000

\* round(objective.Value(), 4) on EUR keeps multiples of 1e-4 EUR.
OBJECTIVE_ROUND == 1000

None == "None"

-----------------------------------------------------------------------------
(* Python and numpy helpers *)

Min(a, b) == IF a <= b THEN a ELSE b

Abs(a) == IF a < 0 THEN -a ELSE a

\* [v]*n : the empty list when n <= 0.
Repeat(v, n) == [i \in 1..n |-> v]

RECURSIVE SumSeq(_)
SumSeq(s) ==
    IF Len(s) = 0 THEN 0 ELSE s[1] + SumSeq(Tail(s))

\* variables[:n], lb[:n] : the first n entries (all of them when n > len).
Prefix(s, n) == SubSeq(s, 1, Min(n, Len(s)))

\* np.cumsum(s)
cumsum(s) == [k \in 1..Len(s) |-> SumSeq(Prefix(s, k))]

\* Python's round to a multiple of q: to the nearest, a tie to the even one.
Round(v, q) ==
    LET r == v % q
        below == v - r
    IN  IF 2 * r < q THEN below
        ELSE IF 2 * r > q THEN below + q
        ELSE IF (below \div q) % 2 = 0 THEN below
        ELSE below + q

\* a @ x for a matrix a (a sequence of rows) and a vector x.
MatVec(a, x) ==
    [k \in 1..Len(a) |-> SumSeq([j \in 1..Len(x) |-> a[k][j] * x[j]])]

-----------------------------------------------------------------------------
(* The constants cell *)

\* ELECTRICITY_COSTS for n slots: runs of the low price, every third slot high.
Prices(n) == [i \in 1..n |-> IF i % 3 = 0 THEN HIGH_COST ELSE LOW_COST]

\* TIME_PERIOD_HOURS is the number of slots, the literal 24 of the cells.
Config(n, tmin, tmax, q, soc0, soc1, lo, hi, prices, base) ==
    [TIME_PERIOD_HOURS |-> n, T_MIN |-> tmin, T_MAX |-> tmax, Q_KWH |-> q,
     STATE_OF_CHARGE_T0 |-> soc0, STATE_OF_CHARGE_TCH |-> soc1,
     CHARGE_POWER_LOWER_BOUND_KWH |-> lo,
     CHARGE_POWER_HIGHER_BOUND_KWH |-> hi,
     ELECTRICITY_COSTS |-> prices,
     DEGRADATION_BASE_RATE |-> base]

\* What section 3 of the notebooks' documentation asks of a configuration.
ValidConfig(c) ==
    /\ Len(c.ELECTRICITY_COSTS) = c.TIME_PERIOD_HOURS
    /\ 0 <= c.T_MIN /\ c.T_MIN < c.T_MAX /\ c.T_MAX <= c.TIME_PERIOD_HOURS
    /\ c.Q_KWH > 0
    /\ c.STATE_OF_CHARGE_T0 \in 0..10
    /\ c.STATE_OF_CHARGE_TCH \in 0..10

\* Every plug-in window with 0 <= t_min < t_max <= HORIZON.
Windows == { w \in (0..HORIZON) \X (0..HORIZON) : w[1] < w[2] }

\* The configurations explored: a 1 kWh battery from 50 % to 90 %, chargers of
\* 0.2 kWh per slot with and without V2G, with and without degradation, every
\* plug-in window.
\* ELECTRICITY_COSTS with hours of free electricity: every third slot high.
FreePrices(n) == [i \in 1..n |-> IF i % 3 = 0 THEN HIGH_COST ELSE 0]

\* The same, one configuration with hours of free electricity, and one with
\* V2G and a target of 70 % for a window that ends before the last slot.
ValidConfigs ==
    { Config(HORIZON, w[1], w[2], 1, 5, 9, lo, 200, Prices(HORIZON), base) :
        w \in Windows, lo \in {-200, 0}, base \in {0, 1} }
    \cup { Config(HORIZON, 0, HORIZON, 1, 5, 9, 0, 200, FreePrices(HORIZON), 1) }
    \cup { Config(HORIZON, 0, HORIZON - 1, 1, 5, 7, -200, 200, Prices(HORIZON), 1) }

\* Malformed configurations, one defect each.
InvalidConfigs ==
    { Config(HORIZON, 2, 2, 1, 5, 9, -200, 200, Prices(HORIZON), 1),
      Config(HORIZON, 3, 1, 1, 5, 9, -200, 200, Prices(HORIZON), 1),
      Config(HORIZON, 1, HORIZON + 1, 1, 5, 9, -200, 200, Prices(HORIZON), 1),
      Config(HORIZON, 0, 3, 0, 5, 9, -200, 200, Prices(HORIZON), 1),
      Config(HORIZON, 0, 3, 1, 12, 9, -200, 200, Prices(HORIZON), 1),
      Config(HORIZON, 0, 3, 1, 5, 9, -200, 200, Prices(HORIZON - 1), 1) }

Configs == ValidConfigs \cup InvalidConfigs

-----------------------------------------------------------------------------
(* Model 2, the cost model (cell 2 and cell 4) *)

\* The polynomial with the sign of its second-order term flipped: concave.
ExpConcave(x6) ==
    1000000 + x6 - ((x6 \div 10) * (x6 \div 10)) \div 20000

\* np.exp(x) for x given in 1e-6, in 1e-6: the Taylor polynomial of degree 4
\* in integer arithmetic (within 5e-6 of exp for 0 <= x <= 0.1).
Exp(x6) ==
    LET t2 == ((x6 \div 10) * (x6 \div 10)) \div 20000
        t3 == (t2 * x6) \div 3000000
        t4 == (t3 * x6) \div 4000000
    IN  1000000 + x6 + t2 + t3 + t4

\* The degradation ratio with the exponent's sign slipped: falling in |p_|.
DegradationSignSlipped(p_, c) ==
    c.DEGRADATION_BASE_RATE
        * Exp((0 - 50000 * Abs(p_)) \div c.CHARGE_POWER_HIGHER_BOUND_KWH)

\* (10**-5)*(np.exp(0.05*abs(p_)/CHARGE_POWER_HIGHER_BOUND_KWH)), in 1e-11.
degradation_function(p_, c) ==
    c.DEGRADATION_BASE_RATE
        * Exp((50000 * Abs(p_)) \div c.CHARGE_POWER_HIGHER_BOUND_KWH)

\* The battery cost with its sign lost: wear pays.
BatteryCostNegated(c) == 0 - (c.Q_KWH * 156 * 84) \div 10

\* Q_KWH*156*0.84, in 0.1 EUR.
BATTERY_COST(c) == (c.Q_KWH * 156 * 84) \div 10

\* The electricity cost with energy sold paid for like energy bought.
CostElectricityUnsigned(p, c) ==
    SumSeq([i \in 1..Min(Len(p), Len(c.ELECTRICITY_COSTS)) |->
                Abs(p[i]) * c.ELECTRICITY_COSTS[i]])

\* sum(p_*ep for p_,ep in zip(p, ELECTRICITY_COSTS)): zip stops at the shorter.
cost_electricity(p, c) ==
    SumSeq([i \in 1..Min(Len(p), Len(c.ELECTRICITY_COSTS)) |->
                p[i] * c.ELECTRICITY_COSTS[i]])

\* The degradation cost of the slots of the plug-in window only.
CostDegradationWindowOnly(p, c) ==
    (BATTERY_COST(c)
        * (SumSeq([i \in 1..Len(p) |->
                      IF (i - 1 < c.T_MIN) \/ (c.T_MAX <= i - 1)
                      THEN 0 ELSE degradation_function(p[i], c)]) \div 1000))
    \div 100

\* BATTERY_COST*sum(degradation_function(p_) for p_ in p): the sum in 1e-11 is
\* kept to 1e-8, the product in 1e-9 EUR to 1e-7 EUR.
cost_degradation(p, c) ==
    (BATTERY_COST(c)
        * (SumSeq([i \in 1..Len(p) |-> degradation_function(p[i], c)]) \div 1000))
    \div 100

\* The charge cost with the degradation term left out.
CostChargeElectricityOnly(p, c) == cost_electricity(p, c)

\* ce + cd of the two terms above.
cost_charge(p, c) ==
    LET ce == cost_electricity(p, c)
        cd == cost_degradation(p, c)
    IN  ce + cd

-----------------------------------------------------------------------------
(* Model 2, the constraint model (cell 4) *)

\* STATE_OF_CHARGE_x*Q_KWH as the notebooks multiply them, in Wh.
Energy(soc, q) == soc * q * 100

\* The lower bounds with the window one slot short at its end.
BoxLbShortWindow(c) ==
    Repeat(0, c.T_MIN)
        \o Repeat(c.CHARGE_POWER_LOWER_BOUND_KWH, c.T_MAX - c.T_MIN - 1)
        \o Repeat(0, c.TIME_PERIOD_HOURS - c.T_MAX + 1)

\* The lower bounds of a charger that cannot discharge: 0 in every slot.
BoxLbNoDischarge(c) == Repeat(0, c.TIME_PERIOD_HOURS)

\* lb = [0]*T_MIN + [CHARGE_POWER_LOWER_BOUND_KWH]*(T_MAX-T_MIN) + [0]*(24-T_MAX)
BoxLb(c) ==
    Repeat(0, c.T_MIN)
        \o Repeat(c.CHARGE_POWER_LOWER_BOUND_KWH, c.T_MAX - c.T_MIN)
        \o Repeat(0, c.TIME_PERIOD_HOURS - c.T_MAX)

\* Mutant of BoxUb: the upper bound of the window applied to the whole day.
BoxUbWholeDay(c) ==
    Repeat(c.CHARGE_POWER_HIGHER_BOUND_KWH, c.TIME_PERIOD_HOURS)

\* ub = [0]*T_MIN + [CHARGE_POWER_HIGHER_BOUND_KWH]*(T_MAX-T_MIN) + [0]*(24-T_MAX)
BoxUb(c) ==
    Repeat(0, c.T_MIN)
        \o Repeat(c.CHARGE_POWER_HIGHER_BOUND_KWH, c.T_MAX - c.T_MIN)
        \o Repeat(0, c.TIME_PERIOD_HOURS - c.T_MAX)

\* Bounds(lb, ub) keeps the two lists it is given.
Bounds(l, u) == [lb |-> l, ub |-> u]

\* The strictly lower-triangular matrix: the diagonal left out.
TrilStrict(n) == [k \in 1..n |-> [j \in 1..n |-> IF j < k THEN 1 ELSE 0]]

\* np.tril([1]*24).reshape((24,24)): row k has ones in columns 0..k.
Tril(n) == [k \in 1..n |-> [j \in 1..n |-> IF j <= k THEN 1 ELSE 0]]

\* The lower bounds with the target from the row of the window's last slot on
\* (the slice T_MAX-1: ).
ConstraintLbFromLastSlot(c) ==
    [i \in 1..c.TIME_PERIOD_HOURS |->
        IF i >= c.T_MAX
        THEN Energy(c.STATE_OF_CHARGE_TCH - c.STATE_OF_CHARGE_T0, c.Q_KWH)
        ELSE -Energy(c.STATE_OF_CHARGE_T0, c.Q_KWH)]

\* The lower bounds of the rows without the assignment to the slice T_MAX: .
ConstraintLbNoTarget(c) ==
    [i \in 1..c.TIME_PERIOD_HOURS |-> -Energy(c.STATE_OF_CHARGE_T0, c.Q_KWH)]

\* lb = np.ones((24,))*(-STATE_OF_CHARGE_T0*Q_KWH)
\* lb[T_MAX:] = (STATE_OF_CHARGE_TCH-STATE_OF_CHARGE_T0)*Q_KWH
\* The slice T_MAX: holds the 0-based rows T_MAX..23, the rows i > T_MAX here.
ConstraintLb(c) ==
    [i \in 1..c.TIME_PERIOD_HOURS |->
        IF i > c.T_MAX
        THEN Energy(c.STATE_OF_CHARGE_TCH - c.STATE_OF_CHARGE_T0, c.Q_KWH)
        ELSE -Energy(c.STATE_OF_CHARGE_T0, c.Q_KWH)]

\* The upper bounds of the rows set to the target: no charge beyond it.
ConstraintUbAtTarget(c) ==
    [i \in 1..c.TIME_PERIOD_HOURS |->
        Energy(c.STATE_OF_CHARGE_TCH - c.STATE_OF_CHARGE_T0, c.Q_KWH)]

\* Mutant of ConstraintUb: the capacity itself, the initial charge forgotten.
ConstraintUbNoInitial(c) ==
    [i \in 1..c.TIME_PERIOD_HOURS |-> Energy(10, c.Q_KWH)]

\* ub = np.ones((24,))*((1-STATE_OF_CHARGE_T0)*Q_KWH)
ConstraintUb(c) ==
    [i \in 1..c.TIME_PERIOD_HOURS |-> Energy(10 - c.STATE_OF_CHARGE_T0, c.Q_KWH)]

LinearConstraint(a, l, u) == [A |-> a, lb |-> l, ub |-> u]

\* scipy: x meets Bounds b when lb <= x <= ub in every entry.
InBounds(b, x) ==
    /\ Len(b.lb) = Len(x)
    /\ Len(b.ub) = Len(x)
    /\ \A i \in 1..Len(x) : b.lb[i] <= x[i] /\ x[i] <= b.ub[i]

\* scipy: x meets LinearConstraint lc when lb <= A @ x <= ub in every row.
InLinear(lc, x) ==
    LET ax == MatVec(lc.A, x)
    IN  \A k \in 1..Len(ax) : lc.lb[k] <= ax[k] /\ ax[k] <= lc.ub[k]

\* The feasible set handed to minimize.
Feasible(b, lc, x) == InBounds(b, x) /\ InLinear(lc, x)

-----------------------------------------------------------------------------
(* The solvers: scipy's minimize and OR-Tools' GLOP, by their contracts *)

\* The power values a solver's answer may hold in a slot: full discharge, zero,
\* a value off the 0.01 kWh print grid, half power and full power.
Levels(c) ==
    LET hi == c.CHARGE_POWER_HIGHER_BOUND_KWH
    IN  {-hi, 0, 4, hi \div 2, hi}

Profiles(c) == [1..c.TIME_PERIOD_HOURS -> Levels(c)]

\* The minimisers over the set F of cost, a function on F.
ArgMin(F, cost) == { x \in F : \A y \in F : cost[x] <= cost[y] }

\* minimize(cost_charge, p0, method='trust-constr', ...): status 1 (gtol) is
\* returned at a feasible minimiser only; status 0 (evaluation budget
\* exhausted) and status 2 (xtol) are returned with whatever iterate was last.
MinimizeResults(c, b, lc) ==
    LET F == { x \in Profiles(c) : Feasible(b, lc, x) }
        best == ArgMin(F, [x \in F |-> cost_charge(x, c)])
    IN  { [x |-> x, status |-> 1] : x \in best }
            \cup { [x |-> x, status |-> s] : x \in Profiles(c), s \in {0, 2} }

\* The message options={'verbose': 1} prints when minimize returns.
TerminationMessage(status) ==
    CASE status = 0 -> "The maximum number of function evaluations is exceeded."
      [] status = 1 -> "gtol termination condition is satisfied."
      [] status = 2 -> "xtol termination condition is satisfied."

-----------------------------------------------------------------------------
(* Model 2: the cells *)

\* The initial guess with no power in any slot.
InitialGuessZero(c) == Repeat(0, c.TIME_PERIOD_HOURS)

\* p0 = [1]*24: 1 kWh in every slot.
InitialGuess(c) == Repeat(WH_PER_KWH, c.TIME_PERIOD_HOURS)

M2Unset ==
    /\ lb = None /\ ub = None /\ bounds = None /\ m = None
    /\ linear_constraint = None /\ p0 = None /\ res = None
    /\ heap = None

M1Unset ==
    /\ variables = None /\ ct_charge_vehicle_before_tmax = None
    /\ ct_bounded_charge = None /\ objective = None /\ lp = None

Init ==
    /\ nb \in {"M1", "M2"}
    /\ cfg \in Configs
    /\ pc = "cell2"
    /\ M2Unset
    /\ M1Unset
    /\ out = None
    /\ arg = None /\ ret = None /\ iterate = None /\ previous = << >>

\* Cell 4 with the box bounds taken from the names lb and ub as an earlier run
\* of the cell left them, when there was one.
Cell4StaleBounds ==
    /\ nb = "M2" /\ pc = "cell2"
    /\ bounds' = IF previous = << >> THEN Bounds(BoxLb(cfg), BoxUb(cfg))
                                     ELSE Bounds(lb, ub)
    /\ m' = Tril(cfg.TIME_PERIOD_HOURS)
    /\ lb' = ConstraintLb(cfg)
    /\ ub' = ConstraintUb(cfg)
    /\ linear_constraint' = LinearConstraint(Tril(cfg.TIME_PERIOD_HOURS), ConstraintLb(cfg),
                                            ConstraintUb(cfg))
    /\ pc' = "cell4"
    /\ UNCHANGED <<heap, nb, cfg, p0, res, m1vars, out, callvars>>

\* Cell 4: the cost functions, the box bounds and the linear constraint.  The
\* names lb and ub are bound twice; they end as the linear constraint's.
Cell4 ==
    /\ nb = "M2" /\ pc = "cell2"
    /\ bounds' = Bounds(BoxLb(cfg), BoxUb(cfg))
    /\ m' = Tril(cfg.TIME_PERIOD_HOURS)
    /\ lb' = ConstraintLb(cfg)
    /\ ub' = ConstraintUb(cfg)
    /\ linear_constraint' = LinearConstraint(Tril(cfg.TIME_PERIOD_HOURS), ConstraintLb(cfg),
                                            ConstraintUb(cfg))
    /\ pc' = "cell4"
    /\ UNCHANGED <<heap, nb, cfg, p0, res, m1vars, out, callvars>>

\* Cell 5, when minimize raises: the bounds do not have one entry per entry of p0.
Cell5Raises ==
    /\ nb = "M2" /\ pc = "cell4"
    /\ Len(bounds.lb) # cfg.TIME_PERIOD_HOURS
    /\ p0' = InitialGuess(cfg)
    /\ pc' = "cell5_raised"
    /\ out' = [cell |-> 5, text |-> "ValueError"]
    /\ UNCHANGED <<heap, nb, cfg, lb, ub, bounds, m, linear_constraint, res, m1vars, callvars>>

\* Cell 5: p0 = [1]*24; res = minimize(cost_charge, p0, ...).
Cell5 ==
    /\ nb = "M2" /\ pc = "cell4"
    /\ Len(bounds.lb) = cfg.TIME_PERIOD_HOURS
    /\ p0' = InitialGuess(cfg)
    /\ res' \in MinimizeResults(cfg, bounds, linear_constraint)
    /\ pc' = "cell5"
    /\ out' = [cell |-> 5, text |-> TerminationMessage(res'.status)]
    /\ UNCHANGED <<heap, nb, cfg, lb, ub, bounds, m, linear_constraint, m1vars, callvars>>

\* Cell 6: print the profile, the vehicle charge and the three costs.
Cell6 ==
    /\ nb = "M2" /\ pc = "cell5"
    /\ LET solution == [i \in 1..Len(res.x) |-> Round(res.x[i], PROFILE_ROUND_WH)]
           first == Energy(cfg.STATE_OF_CHARGE_T0, cfg.Q_KWH)
       IN  out' = [cell |-> 6,
                   text |-> "Optimal charge profile (kWh):",
                   solution |-> solution,
                   charge |-> [k \in 1..Len(solution) |-> cumsum(solution)[k] + first],
                   balance |-> Round(cost_charge(res.x, cfg), COST_ROUND),
                   electricity |-> Round(cost_electricity(res.x, cfg), COST_ROUND),
                   degradation |-> Round(cost_degradation(res.x, cfg), COST_ROUND)]
    /\ pc' = "cell6"
    /\ UNCHANGED <<heap, nb, cfg, m2vars, m1vars, callvars>>

-----------------------------------------------------------------------------
(* Model 1: the optimisation cell *)

\* The variables with the charger's bounds in every slot of the day.
NumVarsWholeDay(c) ==
    [j \in 1..c.TIME_PERIOD_HOURS |->
        [lb |-> c.CHARGE_POWER_LOWER_BOUND_KWH,
         ub |-> c.CHARGE_POWER_HIGHER_BOUND_KWH]]

\* The variables with the lower bound -higher inside the window, whatever
\* CHARGE_POWER_LOWER_BOUND_KWH is.
NumVarsDischarging(c) ==
    [j \in 1..c.TIME_PERIOD_HOURS |->
        IF (j - 1 < c.T_MIN) \/ (c.T_MAX <= j - 1)
        THEN [lb |-> 0, ub |-> 0]
        ELSE [lb |-> 0 - c.CHARGE_POWER_HIGHER_BOUND_KWH,
              ub |-> c.CHARGE_POWER_HIGHER_BOUND_KWH]]

\* variables: NumVar(0, 0) outside the window, NumVar(lower, higher) inside.
\* Slot i of range(24) is entry i + 1 here.
NumVars(c) ==
    [j \in 1..c.TIME_PERIOD_HOURS |->
        IF (j - 1 < c.T_MIN) \/ (c.T_MAX <= j - 1)
        THEN [lb |-> 0, ub |-> 0]
        ELSE [lb |-> c.CHARGE_POWER_LOWER_BOUND_KWH,
              ub |-> c.CHARGE_POWER_HIGHER_BOUND_KWH]]

\* solver.Constraint(lb, ub) with coefficient 1 on variables[:n].
PrefixConstraint(l, u, n, len) ==
    [lb |-> l, ub |-> u, coef |-> [j \in 1..len |-> IF j <= n THEN 1 ELSE 0]]

\* ct_charge_vehicle_before_tmax, on variables[:T_MAX].
CtChargeVehicleBeforeTmax(c) ==
    PrefixConstraint(Energy(c.STATE_OF_CHARGE_TCH - c.STATE_OF_CHARGE_T0, c.Q_KWH),
                     Energy(10 - c.STATE_OF_CHARGE_T0, c.Q_KWH),
                     c.T_MAX, c.TIME_PERIOD_HOURS)

\* The constraints ct_bounded_charge of the loop for i in range(1,25), in order.
CtBoundedCharge(c) ==
    [i \in 1..c.TIME_PERIOD_HOURS |->
        PrefixConstraint(-Energy(c.STATE_OF_CHARGE_T0, c.Q_KWH),
                         Energy(10 - c.STATE_OF_CHARGE_T0, c.Q_KWH),
                         i, c.TIME_PERIOD_HOURS)]

\* The objective with the coefficient 1 on every variable: energy, not cost.
ObjectiveUnitCoefficients(c) == [i \in 1..c.TIME_PERIOD_HOURS |-> 1]

\* objective.SetCoefficient(variable, ELECTRICITY_COSTS[i]) for every variable.
Objective(c) == [i \in 1..c.TIME_PERIOD_HOURS |-> c.ELECTRICITY_COSTS[i]]

\* The value of a linear form with coefficients coef at x.
Dot(coef, x) == SumSeq([j \in 1..Len(coef) |-> coef[j] * x[j]])

InConstraint(ct, x) ==
    LET v == Dot(ct.coef, x) IN ct.lb <= v /\ v <= ct.ub

\* The feasible set of the linear program.
FeasibleLP(vs, ctT, ctB, x) ==
    /\ \A j \in 1..Len(vs) : vs[j].lb <= x[j] /\ x[j] <= vs[j].ub
    /\ InConstraint(ctT, x)
    /\ \A i \in 1..Len(ctB) : InConstraint(ctB[i], x)

\* solver.Solve(): OPTIMAL with a minimiser when the program is feasible,
\* INFEASIBLE otherwise, the variables then holding unspecified values.
SolveResults(c, vs, ctT, ctB, obj) ==
    LET F == { x \in Profiles(c) : FeasibleLP(vs, ctT, ctB, x) }
    IN  IF F # {}
        THEN { [x |-> x, status |-> "OPTIMAL"] :
                   x \in ArgMin(F, [y \in F |-> Dot(obj, y)]) }
        ELSE { [x |-> x, status |-> "INFEASIBLE"] : x \in Profiles(c) }

\* The cell up to the objective, when ELECTRICITY_COSTS[i] raises IndexError.
M1BuildRaises ==
    /\ nb = "M1" /\ pc = "cell2"
    /\ Len(cfg.ELECTRICITY_COSTS) < cfg.TIME_PERIOD_HOURS
    /\ variables' = NumVars(cfg)
    /\ ct_charge_vehicle_before_tmax' = CtChargeVehicleBeforeTmax(cfg)
    /\ ct_bounded_charge' = CtBoundedCharge(cfg)
    /\ pc' = "m1_raised"
    /\ out' = [cell |-> 4, text |-> "IndexError"]
    /\ UNCHANGED <<heap, nb, cfg, m2vars, objective, lp, callvars>>

\* The cell up to objective.SetMinimization().
M1Build ==
    /\ nb = "M1" /\ pc = "cell2"
    /\ Len(cfg.ELECTRICITY_COSTS) >= cfg.TIME_PERIOD_HOURS
    /\ variables' = NumVars(cfg)
    /\ ct_charge_vehicle_before_tmax' = CtChargeVehicleBeforeTmax(cfg)
    /\ ct_bounded_charge' = CtBoundedCharge(cfg)
    /\ objective' = Objective(cfg)
    /\ pc' = "m1_built"
    /\ UNCHANGED <<heap, nb, cfg, m2vars, lp, out, callvars>>

\* solver.Solve(): the status it returns is dropped.
M1Solve ==
    /\ nb = "M1" /\ pc = "m1_built"
    /\ lp' \in SolveResults(cfg, variables, ct_charge_vehicle_before_tmax,
                            ct_bounded_charge, objective)
    /\ pc' = "m1_solved"
    /\ UNCHANGED <<heap, nb, cfg, m2vars, variables, ct_charge_vehicle_before_tmax,
                   ct_bounded_charge, objective, out, callvars>>

\* The prints that end the cell.
M1Print ==
    /\ nb = "M1" /\ pc = "m1_solved"
    /\ LET solution == lp.x
           first == Energy(cfg.STATE_OF_CHARGE_T0, cfg.Q_KWH)
       IN  out' = [cell |-> 4,
                   text |-> "Optimal charge profile (kWh):",
                   solution |-> solution,
                   charge |-> [k \in 1..Len(solution) |-> cumsum(solution)[k] + first],
                   balance |-> Round(Dot(objective, lp.x), OBJECTIVE_ROUND)]
    /\ pc' = "m1_printed"
    /\ UNCHANGED <<heap, nb, cfg, m2vars, variables, ct_charge_vehicle_before_tmax,
                   ct_bounded_charge, objective, lp, callvars>>

Next ==
    \/ Cell4 \/ Cell5Raises \/ Cell5 \/ Cell6
    \/ M1BuildRaises \/ M1Build \/ M1Solve \/ M1Print

Spec == Init /\ [][Next]_vars

-----------------------------------------------------------------------------
(* The cost functions of Model 2 called on their own *)

\* A charger of 0.01 kWh per slot, so that powers thousands of times beyond
\* its bounds still have a cost that fits the integers here.
SmallCharger == Config(HORIZON, 0, HORIZON, 1, 5, 9, -10, 10, Prices(HORIZON), 1)

\* The configurations of the calls: the 1 kWh battery with the whole day
\* plugged in, with and without degradation, the small charger, and the
\* battery plugged in for a window inside the day.
CallConfigs ==
    { Config(HORIZON, 0, HORIZON, 1, 5, 9, -200, 200, Prices(HORIZON), base) :
        base \in {0, 1} }
    \cup { SmallCharger }
    \cup { Config(HORIZON, 1, HORIZON - 1, 1, 5, 9, -200, 200, Prices(HORIZON), 1) }

\* Power values in tenths of the charger's power, discharge to charge.
CallLevels(c) ==
    { k * (c.CHARGE_POWER_HIGHER_BOUND_KWH \div 10) : k \in -10..10 }

\* The profiles handed to the cost functions: any two call levels in the first
\* two slots (which have the same price), rest or half power in the others.
CallProfiles(c) ==
    LET hi == c.CHARGE_POWER_HIGHER_BOUND_KWH
        n  == c.TIME_PERIOD_HOURS
    IN  { [i \in 1..n |-> IF i = 1 THEN a ELSE IF i = 2 THEN b ELSE r[i]] :
            a \in CallLevels(c), b \in CallLevels(c),
            r \in [3..n -> {0, hi \div 2}] }

\* Profiles a line search may probe: one slot at twice the charger's power,
\* and for the small charger one slot at 15000 times its power.
BeyondBounds(c) ==
    LET hi == c.CHARGE_POWER_HIGHER_BOUND_KWH
        n  == c.TIME_PERIOD_HOURS
        far == IF c = SmallCharger THEN {15000 * hi, -15000 * hi} ELSE {}
    IN  { [i \in 1..n |-> IF i = k THEN v ELSE 0] :
            k \in 1..n, v \in {2 * hi, -2 * hi} \cup far }

\* np.exp(0.05*abs(p_)/CHARGE_POWER_HIGHER_BOUND_KWH) is inf, with a
\* RuntimeWarning and no exception, once its argument passes 709.78, the
\* logarithm of the largest float64: from abs(p_) = 14196 times the bound on.
ExpIsInf(p_, c) == Abs(p_) \div c.CHARGE_POWER_HIGHER_BOUND_KWH >= 14196

\* The sum of cost_degradation is a finite float: no term is inf (or nan, for
\* the ratio 0 times inf).
FiniteDegradation(x, c) == \A i \in 1..Len(x) : ~ExpIsInf(x[i], c)

InitCall ==
    /\ nb = "M2"
    /\ cfg \in CallConfigs
    /\ pc = "call"
    /\ M2Unset
    /\ M1Unset
    /\ out = None
    /\ arg \in CallProfiles(cfg) \cup BeyondBounds(cfg)
    /\ ret = None
    /\ iterate = None
    /\ previous = << >>

\* A return that leaves the absolute values in the list it was handed.
ReturnClobbering(f, finite, value) ==
    /\ pc = "call" \/ (pc = "returned" /\ ret.calls < MaxCalls)
    /\ pc' = "returned"
    /\ ret' = [f |-> f, finite |-> finite, value |-> value,
               calls |-> IF pc = "call" THEN 1 ELSE ret.calls + 1]
    /\ arg' = [i \in 1..Len(arg) |-> Abs(arg[i])]
    /\ UNCHANGED <<heap, nb, cfg, m2vars, m1vars, out, iterate, previous>>

\* A cost function returns a float: finite with the value given, or not (inf
\* or nan).  The functions assign no global and do not write to p.
Return(f, finite, value) ==
    /\ pc = "call" \/ (pc = "returned" /\ ret.calls < MaxCalls)
    /\ pc' = "returned"
    /\ ret' = [f |-> f, finite |-> finite, value |-> value,
               calls |-> IF pc = "call" THEN 1 ELSE ret.calls + 1]
    /\ UNCHANGED <<heap, nb, cfg, m2vars, m1vars, out, arg, iterate, previous>>

CallCostElectricity ==
    Return("cost_electricity", TRUE, cost_electricity(arg, cfg))

CallCostDegradation ==
    LET finite == FiniteDegradation(arg, cfg)
    IN  Return("cost_degradation", finite,
               IF finite THEN cost_degradation(arg, cfg) ELSE 0)

CallCostCharge ==
    LET finite == FiniteDegradation(arg, cfg)
    IN  Return("cost_charge", finite,
               IF finite THEN cost_charge(arg, cfg) ELSE 0)

NextCall == CallCostElectricity \/ CallCostDegradation \/ CallCostCharge

SpecCost == InitCall /\ [][NextCall]_vars

-----------------------------------------------------------------------------
(* The cost functions of Model 2 called on lists of any length *)

\* How far the length of a list handed in may exceed the number of slots.
MaxBeyond == 2

\* The lists of full discharge, rest and full charge of every length from 0
\* to MaxBeyond entries more than ELECTRICITY_COSTS has.
AnyLengthProfiles(c) ==
    UNION { [1..len -> {-c.CHARGE_POWER_HIGHER_BOUND_KWH, 0,
                        c.CHARGE_POWER_HIGHER_BOUND_KWH}] :
              len \in 0..(c.TIME_PERIOD_HOURS + MaxBeyond) }

InitAnyLength ==
    /\ nb = "M2"
    /\ cfg = Config(HORIZON, 0, HORIZON, 1, 5, 9, -200, 200, Prices(HORIZON), 1)
    /\ pc = "call"
    /\ M2Unset
    /\ M1Unset
    /\ out = None
    /\ arg \in AnyLengthProfiles(cfg)
    /\ ret = None
    /\ iterate = None
    /\ previous = << >>

SpecAnyLength == InitAnyLength /\ [][NextCall]_vars

-----------------------------------------------------------------------------
(* Model 2 on the configuration of its constants cell *)

\* [LOW_COST]*5 + [HIGH_COST]*4 + [LOW_COST]*10 + [HIGH_COST]*5
ELECTRICITY_COSTS ==
    Repeat(LOW_COST, 5) \o Repeat(HIGH_COST, 4)
        \o Repeat(LOW_COST, 10) \o Repeat(HIGH_COST, 5)

\* 24 slots, T_MIN = 1, T_MAX = 22, Q_KWH = 30, SOC 0.30 to 0.90, power within
\* [-6.6, 6.6] kWh, degradation ratio (10**-5)*exp(0.05*|p|/6.6).
Reference == Config(24, 1, 22, 30, 3, 9, -6600, 6600, ELECTRICITY_COSTS, 1)

\* The minimiser's grid on the reference configuration: elevenths of the
\* charger power, 0.6 kWh.  The initial, target and full charge are on it.
Step == Reference.CHARGE_POWER_HIGHER_BOUND_KWH \div 11

StepLevels == { j * Step : j \in -11..11 }

\* The cumulated energies the linear constraint allows, as table indices.
NumCum == Energy(10, Reference.Q_KWH) \div Step + 1

CumAt(n) ==
    (n - 1) * Step - Energy(Reference.STATE_OF_CHARGE_T0, Reference.Q_KWH)

CumIndex(cum) ==
    (cum + Energy(Reference.STATE_OF_CHARGE_T0, Reference.Q_KWH)) \div Step + 1

\* The objective's term of slot i at power x, in 1e-7 EUR:
\* x*ELECTRICITY_COSTS[i] + BATTERY_COST*degradation_function(x).  The ratio
\* is split into 10**-5 and what the power adds to it, so that the product
\* keeps every digit down to 1e-7 EUR.
SlotCost(i, x) ==
    LET rest == 1000000 * Reference.DEGRADATION_BASE_RATE
        grown == degradation_function(x, Reference) - rest
    IN  x * Reference.ELECTRICITY_COSTS[i]
            + BATTERY_COST(Reference) * (rest \div 100000)
            + (BATTERY_COST(Reference) * grown) \div 100000

\* Slot i may take power x after the energy cum: the box bounds of the slot
\* and row i of the linear constraint.
Admits(i, cum, x) ==
    /\ BoxLb(Reference)[i] <= x /\ x <= BoxUb(Reference)[i]
    /\ ConstraintLb(Reference)[i] <= cum + x
    /\ cum + x <= ConstraintUb(Reference)[i]

\* The cost of a start from which no profile meets the constraints.
Infeasible == 1000000000

\* The least cost of slot i and the slots after it from the energy cum, with
\* next the table of the least costs of the slots after i.
RECURSIVE BestFrom(_, _, _, _)
BestFrom(j, i, cum, next) ==
    IF j > 11 THEN Infeasible
    ELSE LET x == j * Step
             after == IF Admits(i, cum, x)
                      THEN next[CumIndex(cum + x)] ELSE Infeasible
             here == IF after = Infeasible
                     THEN Infeasible ELSE SlotCost(i, x) + after
         IN  Min(here, BestFrom(j + 1, i, cum, next))

Stage(i, next) ==
    SubSeq([n \in 1..NumCum |-> BestFrom(-11, i, CumAt(n), next)], 1, NumCum)

\* The tables of the least costs, last slot first: entry k + 1 is for the
\* slots after the first k, the last entry (nothing left to decide) is zero.
RECURSIVE CostToGoFrom(_)
CostToGoFrom(tables) ==
    LET k == Reference.TIME_PERIOD_HOURS + 1 - Len(tables)
    IN  IF k = 0 THEN tables
        ELSE CostToGoFrom(<< Stage(k, tables[1]) >> \o tables)

CostToGo == CostToGoFrom(<< SubSeq(Repeat(0, NumCum), 1, NumCum) >>)

\* The least cost of a whole profile.
Optimum == CostToGo[1][CumIndex(0)]

InitReference ==
    /\ nb = "M2"
    /\ cfg = Reference
    /\ pc = "cell2"
    /\ M2Unset
    /\ M1Unset
    /\ out = None
    /\ arg = None /\ ret = None /\ previous = << >>
    /\ iterate = [k |-> 0, cum |-> 0, best |-> TRUE, cost |-> 0, x |-> << >>]

\* minimize at work on the reference configuration: the next slot of the
\* iterate gets a power the bounds and the linear constraint allow.  The
\* iterate is kept in full while it can still end as a minimiser; otherwise
\* only its length and its energy are followed.
Iterate ==
    /\ nb = "M2" /\ pc = "cell4" /\ cfg = Reference
    /\ iterate.k < cfg.TIME_PERIOD_HOURS
    /\ \E x \in StepLevels :
          LET i == iterate.k + 1
              cum == iterate.cum + x
              cost == iterate.cost + SlotCost(i, x)
              best == /\ iterate.best
                      /\ cost + CostToGo[i + 1][CumIndex(cum)] = Optimum
          IN  /\ bounds.lb[i] <= x /\ x <= bounds.ub[i]
              /\ linear_constraint.lb[i] <= cum
              /\ cum <= linear_constraint.ub[i]
              /\ iterate' = [k |-> i, cum |-> cum, best |-> best,
                             cost |-> IF best THEN cost ELSE 0,
                             x |-> IF best THEN Append(iterate.x, x) ELSE << >>]
    /\ UNCHANGED <<heap, nb, pc, cfg, m2vars, m1vars, out, arg, ret, previous>>

\* minimize returns with status 1 once the iterate is a whole profile of least
\* cost.
Cell5Reference ==
    /\ nb = "M2" /\ pc = "cell4" /\ cfg = Reference
    /\ iterate.k = cfg.TIME_PERIOD_HOURS
    /\ iterate.best
    /\ p0' = InitialGuess(cfg)
    /\ res' = [x |-> iterate.x, status |-> 1]
    /\ pc' = "cell5"
    /\ out' = [cell |-> 5, text |-> TerminationMessage(1)]
    /\ UNCHANGED <<heap, nb, cfg, lb, ub, bounds, m, linear_constraint, m1vars, callvars>>

NextReference == Cell4 \/ Iterate \/ Cell5Reference \/ Cell6

SpecRef == InitReference /\ [][NextReference]_vars

-----------------------------------------------------------------------------
(* Model 2 run again in the same kernel *)

\* The configurations run twice: the whole day and a window inside it, with
\* and without V2G.
RerunConfigs ==
    { Config(HORIZON, w[1], w[2], 1, 5, 9, lo, 200, Prices(HORIZON), 1) :
        w \in {<<0, HORIZON>>, <<1, 3>>}, lo \in {-200, 0} }

InitRerun ==
    /\ nb = "M2"
    /\ cfg \in RerunConfigs
    /\ pc = "cell2"
    /\ M2Unset
    /\ M1Unset
    /\ out = None
    /\ arg = None /\ ret = None /\ iterate = None
    /\ previous = << >>

\* What a run handed to minimize and what it got back.
Built ==
    [cfg |-> cfg, bounds |-> bounds, linear_constraint |-> linear_constraint,
     p0 |-> p0, res |-> res]

\* The earlier runs that handed minimize the objective, initial guess, bounds
\* and constraint that it is handed now with the initial guess guess.
SameProblem(guess) ==
    { k \in 1..Len(previous) :
        /\ previous[k].cfg = cfg
        /\ previous[k].p0 = guess
        /\ previous[k].bounds = bounds
        /\ previous[k].linear_constraint = linear_constraint }

\* Cell 5 of any run.  trust-constr draws no random numbers: handed the same
\* problem as in an earlier run it returns what it returned then.
Cell5OfRun ==
    /\ nb = "M2" /\ pc = "cell4"
    /\ Len(bounds.lb) = cfg.TIME_PERIOD_HOURS
    /\ p0' = InitialGuess(cfg)
    /\ res' \in IF SameProblem(p0') # {}
                THEN { previous[k].res : k \in SameProblem(p0') }
                ELSE MinimizeResults(cfg, bounds, linear_constraint)
    /\ pc' = "cell5"
    /\ out' = [cell |-> 5, text |-> TerminationMessage(res'.status)]
    /\ UNCHANGED <<heap, nb, cfg, lb, ub, bounds, m, linear_constraint, m1vars, callvars>>

\* Run all cells again: the kernel keeps every name bound as the run left it.
Rerun ==
    /\ nb = "M2" /\ pc = "cell6"
    /\ Len(previous) < MaxReruns
    /\ previous' = Append(previous, Built)
    /\ pc' = "cell2"
    /\ UNCHANGED <<heap, nb, cfg, m2vars, m1vars, out, arg, ret, iterate>>

NextRerun == Cell4 \/ Cell5OfRun \/ Cell6 \/ Rerun

SpecRerun == InitRerun /\ [][NextRerun]_vars

-----------------------------------------------------------------------------
(* Cell 4 of Model 2 statement by statement *)

\* The kernel's objects: heap.at[k] is object k, heap.name[n] the object the
\* name n is bound to (0 while it is unbound).  Bounds keeps the two objects
\* it is handed, not copies of them.
NoObjects ==
    [name |-> [lb |-> 0, ub |-> 0, bounds |-> 0, m |-> 0], at |-> << >>]

\* name = value: a new object, and the name bound to it.
Assign(h, n, v) ==
    [name |-> [h.name EXCEPT ![n] = Len(h.at) + 1], at |-> Append(h.at, v)]

\* The Bounds object with the lists it refers to read out.
BoundsObject(h) ==
    Bounds(h.at[h.at[h.name.bounds].lb], h.at[h.at[h.name.bounds].ub])

InitCell4 ==
    /\ nb = "M2"
    /\ cfg \in ValidConfigs
    /\ pc = "cell2"
    /\ lb = None /\ ub = None /\ bounds = None /\ m = None
    /\ linear_constraint = None /\ p0 = None /\ res = None
    /\ heap = NoObjects
    /\ M1Unset
    /\ out = None
    /\ arg = None /\ ret = None /\ iterate = None /\ previous = << >>

\* A statement of cell 4 that changes the objects to h and leaves the cell at
\* the line to.
Statement(from, to, h) ==
    /\ nb = "M2" /\ pc = from
    /\ heap' = h
    /\ pc' = to
    /\ UNCHANGED <<nb, cfg, m2vars, m1vars, out, callvars>>

\* lb = [0]*T_MIN + [CHARGE_POWER_LOWER_BOUND_KWH]*(T_MAX-T_MIN) + [0]*(24-T_MAX)
BindBoxLb == Statement("cell2", "line131", Assign(heap, "lb", BoxLb(cfg)))

\* ub = [0]*T_MIN + [CHARGE_POWER_HIGHER_BOUND_KWH]*(T_MAX-T_MIN) + [0]*(24-T_MAX)
BindBoxUb == Statement("line131", "line132", Assign(heap, "ub", BoxUb(cfg)))

\* bounds = Bounds(lb, ub)
MakeBounds ==
    Statement("line132", "line134",
              Assign(heap, "bounds", [lb |-> heap.name.lb, ub |-> heap.name.ub]))

\* m = np.tril([1]*24).reshape((24,24))
MakeM ==
    Statement("line134", "line138", Assign(heap, "m", Tril(cfg.TIME_PERIOD_HOURS)))

\* The values of line 139 written into the list the name lb is bound to
\* (lb[:] = ...), no new object made.
RebindLbInPlace ==
    Statement("line138", "line139",
              [heap EXCEPT !.at[heap.name.lb] =
                  [i \in 1..cfg.TIME_PERIOD_HOURS |->
                      -Energy(cfg.STATE_OF_CHARGE_T0, cfg.Q_KWH)]])

\* lb = np.ones((24,))*(-STATE_OF_CHARGE_T0*Q_KWH): a new array, the name lb
\* bound to it.
RebindLb ==
    Statement("line138", "line139",
              Assign(heap, "lb",
                     [i \in 1..cfg.TIME_PERIOD_HOURS |->
                         -Energy(cfg.STATE_OF_CHARGE_T0, cfg.Q_KWH)]))

\* lb[T_MAX:] = (STATE_OF_CHARGE_TCH-STATE_OF_CHARGE_T0)*Q_KWH: written into
\* the array the name lb is bound to.
TightenLb ==
    Statement("line139", "line140",
              [heap EXCEPT !.at[heap.name.lb] =
                  [i \in 1..Len(@) |->
                      IF i > cfg.T_MAX
                      THEN Energy(cfg.STATE_OF_CHARGE_TCH - cfg.STATE_OF_CHARGE_T0,
                                  cfg.Q_KWH)
                      ELSE @[i]]])

\* ub = np.ones((24,))*((1-STATE_OF_CHARGE_T0)*Q_KWH)
RebindUb == Statement("line140", "line141", Assign(heap, "ub", ConstraintUb(cfg)))

\* linear_constraint = LinearConstraint(m.tolist(), lb, ub), and the cell is
\* over: the names hold what their objects hold now.
MakeLinearConstraint ==
    /\ nb = "M2" /\ pc = "line141"
    /\ bounds' = BoundsObject(heap)
    /\ m' = heap.at[heap.name.m]
    /\ lb' = heap.at[heap.name.lb]
    /\ ub' = heap.at[heap.name.ub]
    /\ linear_constraint' =
          LinearConstraint(heap.at[heap.name.m], heap.at[heap.name.lb],
                           heap.at[heap.name.ub])
    /\ pc' = "cell4"
    /\ UNCHANGED <<heap, nb, cfg, p0, res, m1vars, out, callvars>>

NextCell4 ==
    \/ BindBoxLb \/ BindBoxUb \/ MakeBounds \/ MakeM
    \/ RebindLb \/ TightenLb \/ RebindUb \/ MakeLinearConstraint
    \/ Cell5

SpecCell4 == InitCell4 /\ [][NextCell4]_vars

-----------------------------------------------------------------------------
(* Properties of the constraint model and of the drivers *)

\* Slot i - 1 of the notebooks (entry i here) lies outside [T_MIN, T_MAX).
OutsideWindow(c, i) == (i - 1 < c.T_MIN) \/ (i - 1 >= c.T_MAX)

\* The vehicle charge after the first k slots of x.
Soc(c, x, k) == Energy(c.STATE_OF_CHARGE_T0, c.Q_KWH) + SumSeq(Prefix(x, k))

Capacity(c) == Energy(10, c.Q_KWH)

SocWithin(c, x) ==
    \A k \in 1..Len(x) : 0 <= Soc(c, x, k) /\ Soc(c, x, k) <= Capacity(c)

M2Constrained == nb = "M2" /\ pc = "cell4"

M1Constrained == nb = "M1" /\ pc = "m1_built"

FeasibleM2(x) == Feasible(bounds, linear_constraint, x)

FeasibleM1(x) ==
    FeasibleLP(variables, ct_charge_vehicle_before_tmax, ct_bounded_charge, x)

\* C1. SOC bound invariant: every profile that meets the box bounds and the
\* cumulative constraint of Model 2, or the variable bounds and the constraints
\* of Model 1, keeps the vehicle charge within [0, capacity] after every slot.
SocBoundInvariant ==
    /\ M2Constrained =>
          \A x \in Profiles(cfg) : FeasibleM2(x) => SocWithin(cfg, x)
    /\ M1Constrained =>
          \A x \in Profiles(cfg) : FeasibleM1(x) => SocWithin(cfg, x)

\* C1, witness: minimize has returned a feasible profile that fills the battery
\* to its capacity at some slot.
SocBoundWitness ==
    /\ nb = "M2" /\ pc = "cell5"
    /\ ValidConfig(cfg)
    /\ FeasibleM2(res.x)
    /\ \E k \in 1..Len(res.x) : Soc(cfg, res.x, k) = Capacity(cfg)

\* C2. Terminal target invariant, as claimed: for every valid window, t_max =
\* 24 included, every feasible profile of Model 2 has delivered by t_max at
\* least (target - initial) * capacity and at most (1 - initial) * capacity.
TerminalTargetInvariant ==
    (M2Constrained /\ ValidConfig(cfg)) =>
        \A x \in Profiles(cfg) :
            FeasibleM2(x) =>
                LET delivered == SumSeq(Prefix(x, cfg.T_MAX))
                IN  /\ Energy(cfg.STATE_OF_CHARGE_TCH - cfg.STATE_OF_CHARGE_T0,
                              cfg.Q_KWH) <= delivered
                    /\ delivered <= Energy(10 - cfg.STATE_OF_CHARGE_T0, cfg.Q_KWH)

\* C3. Window invariant: in both models the two bounds of every slot outside
\* the window are 0, so every profile within the bounds is 0 there.
WindowInvariant ==
    /\ M2Constrained =>
          /\ \A i \in DOMAIN bounds.lb :
                OutsideWindow(cfg, i) => bounds.lb[i] = 0 /\ bounds.ub[i] = 0
          /\ \A x \in Profiles(cfg) :
                InBounds(bounds, x) =>
                    \A i \in 1..Len(x) : OutsideWindow(cfg, i) => x[i] = 0
    /\ M1Constrained =>
          /\ \A i \in DOMAIN variables :
                OutsideWindow(cfg, i) => variables[i].lb = 0 /\ variables[i].ub = 0
          /\ \A x \in Profiles(cfg) :
                (\A j \in 1..Len(variables) :
                    variables[j].lb <= x[j] /\ x[j] <= variables[j].ub)
                => \A i \in 1..Len(x) : OutsideWindow(cfg, i) => x[i] = 0

\* C3, witness: a returned profile within the box bounds, with power in the
\* window and an idle slot outside it.
WindowWitness ==
    /\ nb = "M2" /\ pc = "cell5"
    /\ ValidConfig(cfg)
    /\ InBounds(bounds, res.x)
    /\ \E i \in 1..Len(res.x) : OutsideWindow(cfg, i) /\ i - 1 < cfg.T_MIN
    /\ \E i \in 1..Len(res.x) : OutsideWindow(cfg, i) /\ i - 1 >= cfg.T_MAX
    /\ \E i \in 1..Len(res.x) : res.x[i] > 0

\* C4. Non-convergence is surfaced, as claimed: what is printed as the optimal
\* charge profile comes from a run that met its tolerances (Model 2) or that
\* returned the optimal status (Model 1).
NonConvergenceSurfaced ==
    /\ (nb = "M2" /\ pc = "cell6" /\ out.text = "Optimal charge profile (kWh):")
          => res.status \in {1, 2}
    /\ (nb = "M1" /\ pc = "m1_printed" /\ out.text = "Optimal charge profile (kWh):")
          => lp.status = "OPTIMAL"

\* C5. Configuration errors are rejected before the solver is invoked, as
\* claimed: minimize is only ever called with a valid configuration.
ConfigurationErrorsRejected ==
    (nb = "M2" /\ pc \in {"cell5", "cell5_raised", "cell6"}) => ValidConfig(cfg)

\* C6. Zero-degradation reduction, as claimed: with base rate 0 and lower power
\* bound 0, for every valid window a profile is feasible for Model 2 iff it is
\* feasible for Model 1, and the two objectives agree on it.
ZeroDegradationReduction ==
    ( /\ M2Constrained /\ ValidConfig(cfg)
      /\ cfg.DEGRADATION_BASE_RATE = 0
      /\ cfg.CHARGE_POWER_LOWER_BOUND_KWH = 0 ) =>
        \A x \in Profiles(cfg) :
            /\ FeasibleM2(x) <=>
                   FeasibleLP(NumVars(cfg), CtChargeVehicleBeforeTmax(cfg),
                              CtBoundedCharge(cfg), x)
            /\ cost_charge(x, cfg) = Dot(Objective(cfg), x)
            /\ cost_charge(x, cfg) = cost_electricity(x, cfg)

\* C6, the same for the windows that end before the last slot (T_MAX < 24).
ZeroDegradationReductionBeforeLastSlot ==
    ( /\ M2Constrained /\ ValidConfig(cfg)
      /\ cfg.T_MAX < cfg.TIME_PERIOD_HOURS
      /\ cfg.DEGRADATION_BASE_RATE = 0
      /\ cfg.CHARGE_POWER_LOWER_BOUND_KWH = 0 ) =>
        \A x \in Profiles(cfg) :
            /\ FeasibleM2(x) <=>
                   FeasibleLP(NumVars(cfg), CtChargeVehicleBeforeTmax(cfg),
                              CtBoundedCharge(cfg), x)
            /\ cost_charge(x, cfg) = Dot(Objective(cfg), x)

\* C8. The report of Model 2 is self-consistent with res.x, as claimed: the
\* printed vehicle charge is the initial charge plus the running sum of res.x,
\* within [0, capacity] when res.x is feasible, and the printed costs are those
\* of res.x.
ReportSelfConsistent ==
    (nb = "M2" /\ pc = "cell6") =>
        /\ \A k \in 1..Len(res.x) :
              out.charge[k] = Energy(cfg.STATE_OF_CHARGE_T0, cfg.Q_KWH)
                                  + cumsum(res.x)[k]
        /\ FeasibleM2(res.x) =>
              \A k \in 1..Len(res.x) :
                  0 <= out.charge[k] /\ out.charge[k] <= Capacity(cfg)
        /\ out.balance = Round(cost_charge(res.x, cfg), COST_ROUND)
        /\ out.electricity = Round(cost_electricity(res.x, cfg), COST_ROUND)
        /\ out.degradation = Round(cost_degradation(res.x, cfg), COST_ROUND)

-----------------------------------------------------------------------------
(* Properties of the cost functions *)

\* f has returned a finite value.
Returned(f) == pc = "returned" /\ ret.f = f /\ ret.finite

\* C7. Cost decomposition identity: for every profile, what cost_charge
\* returns is cost_electricity of the profile plus cost_degradation of it.
CostDecomposition ==
    Returned("cost_charge") =>
        ret.value = cost_electricity(arg, cfg) + cost_degradation(arg, cfg)

\* cost_charge has returned for a profile with degradation switched on, both
\* terms non-zero.
CostDecompositionWitness ==
    /\ Returned("cost_charge")
    /\ cfg.DEGRADATION_BASE_RATE = 1
    /\ cost_degradation(arg, cfg) > 0
    /\ cost_electricity(arg, cfg) > 0
    /\ ret.value > cost_electricity(arg, cfg)

\* The profile x with the energy of slots i and i+1 split as a and the rest.
Resplit(x, i, a) == [x EXCEPT ![i] = a, ![i + 1] = x[i] + x[i + 1] - a]

\* The split of slots i and i+1 in y is at least as even as the one in x.
MoreEven(y, x, i) == Abs(y[i] - y[i + 1]) <= Abs(x[i] - x[i + 1])

EqualPrice(c, i) == c.ELECTRICITY_COSTS[i] = c.ELECTRICITY_COSTS[i + 1]

\* C10. Degradation monotonicity: with the energy of two adjacent slots of
\* equal price fixed, a more even split of it has a cost_degradation no larger
\* than the more concentrated split, and the same cost_electricity.
DegradationMonotonicity ==
    Returned("cost_degradation") =>
        \A i \in 1..(Len(arg) - 1), a \in CallLevels(cfg) :
            LET q == Resplit(arg, i, a)
            IN  (EqualPrice(cfg, i) /\ MoreEven(q, arg, i)) =>
                    /\ cost_degradation(q, cfg) <= ret.value
                    /\ cost_electricity(q, cfg) = cost_electricity(arg, cfg)

\* cost_degradation has returned for the split (E, 0) of E = 0.2 kWh, and the
\* split (E/2, E/2) is strictly cheaper in degradation.
DegradationMonotonicityWitness ==
    /\ Returned("cost_degradation")
    /\ cfg.DEGRADATION_BASE_RATE = 1
    /\ EqualPrice(cfg, 1)
    /\ arg[1] = 200 /\ arg[2] = 0
    /\ cost_degradation(Resplit(arg, 1, 100), cfg) < ret.value

-----------------------------------------------------------------------------
(* Properties of the reference run *)

\* minimize has returned a minimiser on the reference configuration.
ReferenceReturned ==
    /\ nb = "M2" /\ cfg = Reference
    /\ pc \in {"cell5", "cell6"}
    /\ res.status = 1

\* The energy delivered by t_max: the sum of the slots 0 .. T_MAX - 1.
DeliveredByTmax(c, x) == SumSeq(Prefix(x, c.T_MAX))

\* Total cost within 2.0-2.6 EUR, electricity within 1.0-1.5 EUR and
\* degradation within 0.8-1.2 EUR.
CostsInReferenceRanges(x) ==
    /\ 20000000 <= cost_charge(x, cfg) /\ cost_charge(x, cfg) <= 26000000
    /\ 10000000 <= cost_electricity(x, cfg)
    /\ cost_electricity(x, cfg) <= 15000000
    /\ 8000000 <= cost_degradation(x, cfg)
    /\ cost_degradation(x, cfg) <= 12000000

\* C9 as stated: on the reference configuration the feasible set is not empty
\* and the optimal profile has a cumulative charge of at least 24.0 kWh by
\* slot 22, a total cost between 2.0 and 2.6, electricity between 1.0 and 1.5
\* and degradation between 0.8 and 1.2.
ReferenceScenarioAsStated ==
    ReferenceReturned =>
        /\ FeasibleM2(res.x)
        /\ DeliveredByTmax(cfg, res.x) >= 24000
        /\ CostsInReferenceRanges(res.x)

\* C9, amended: on the reference configuration the feasible set is not empty
\* and the optimal profile has delivered at least 18.0 kWh = (0.90 - 0.30)*30
\* by slot 22, and never more than 21.0 kWh = (1 - 0.30)*30, so that the
\* vehicle holds at least 27.0 kWh; the total cost is between 2.0 and 2.6,
\* electricity between 1.0 and 1.5 and degradation between 0.8 and 1.2.
ReferenceScenario ==
    ReferenceReturned =>
        /\ FeasibleM2(res.x)
        /\ DeliveredByTmax(cfg, res.x) >= 18000
        /\ DeliveredByTmax(cfg, res.x) <= 21000
        /\ Soc(cfg, res.x, cfg.T_MAX) >= 27000
        /\ CostsInReferenceRanges(res.x)

\* The reference run has printed its report: a feasible minimiser that sells
\* at full power in a high-price slot and delivers 18.0 kWh by slot 22, with
\* the balance 2.3 EUR (electricity 1.3 EUR, degradation 1.0 EUR) of the
\* notebook's recorded output.
ReferenceScenarioWitness ==
    /\ ReferenceReturned
    /\ pc = "cell6"
    /\ FeasibleM2(res.x)
    /\ DeliveredByTmax(cfg, res.x) = 18000
    /\ \E i \in 1..Len(res.x) :
          /\ res.x[i] = cfg.CHARGE_POWER_LOWER_BOUND_KWH
          /\ cfg.ELECTRICITY_COSTS[i] = HIGH_COST
    /\ out.balance = 23 * COST_ROUND
    /\ out.electricity = 13 * COST_ROUND
    /\ out.degradation = 10 * COST_ROUND

\* Slots i and j (entries of the profile, i before j) lie in one run of
\* consecutive in-window slots of the same electricity price.
SameRun(c, i, j) ==
    /\ i < j
    /\ \A k \in i..j :
          /\ ~OutsideWindow(c, k)
          /\ c.ELECTRICITY_COSTS[k] = c.ELECTRICITY_COSTS[i]

DischargeHighChargeLow ==
    ReferenceReturned =>
        \A i \in 1..Len(res.x) :
            /\ res.x[i] < 0 => cfg.ELECTRICITY_COSTS[i] = HIGH_COST
            /\ res.x[i] > 0 => cfg.ELECTRICITY_COSTS[i] = LOW_COST

\* The minimiser returned for the reference configuration sells in both
\* high-price periods and buys in both low-price periods.
DischargeHighChargeLowWitness ==
    /\ ReferenceReturned
    /\ pc = "cell5"
    /\ res.x[6] < 0 /\ res.x[20] < 0
    /\ res.x[2] > 0 /\ res.x[10] > 0
    /\ cfg.ELECTRICITY_COSTS[6] > cfg.ELECTRICITY_COSTS[2]

-----------------------------------------------------------------------------
(* Properties of the optima of Model 1 *)

InWindowSlots(c) == { i \in 1..c.TIME_PERIOD_HOURS : ~OutsideWindow(c, i) }

\* The in-window slots of the lowest electricity price.
LowestPriceSlots(c) ==
    { i \in InWindowSlots(c) :
        \A j \in InWindowSlots(c) :
            c.ELECTRICITY_COSTS[i] <= c.ELECTRICITY_COSTS[j] }

TargetEnergy(c) == Energy(c.STATE_OF_CHARGE_TCH - c.STATE_OF_CHARGE_T0, c.Q_KWH)

\* Model 1 as the notebook has it (no V2G, no negative price), and the
\* lowest-price in-window slots can deliver the target energy at full power.
LowestPriceSuffices(c) ==
    /\ ValidConfig(c)
    /\ c.CHARGE_POWER_LOWER_BOUND_KWH = 0
    /\ \A i \in 1..c.TIME_PERIOD_HOURS : c.ELECTRICITY_COSTS[i] >= 0
    /\ TargetEnergy(c) >= 0
    /\ TargetEnergy(c) <= Energy(10 - c.STATE_OF_CHARGE_T0, c.Q_KWH)
    /\ Cardinality(LowestPriceSlots(c)) * c.CHARGE_POWER_HIGHER_BOUND_KWH
           >= TargetEnergy(c)

M1Optimal == nb = "M1" /\ pc = "m1_solved" /\ lp.status = "OPTIMAL"

\* The optimum lp.x charges in lowest-price slots only, delivers exactly the
\* target energy and costs that energy times the lowest price.
AtLowestPrice(c) ==
    /\ \A i \in 1..Len(lp.x) : lp.x[i] # 0 => i \in LowestPriceSlots(c)
    /\ SumSeq(lp.x) = TargetEnergy(c)
    /\ \A i \in LowestPriceSlots(c) :
          Dot(objective, lp.x) = TargetEnergy(c) * c.ELECTRICITY_COSTS[i]

\* C13 as stated. In Model 1 (lower power bound 0, non-negative prices) the
\* charge occurs at the lowest prices possible: when the lowest-price
\* in-window slots can deliver the target energy, every optimal profile has
\* non-zero power only in those slots, delivers exactly the target energy, and
\* costs that energy times the lowest price.
ChargeAtLowestPriceAsStated ==
    (M1Optimal /\ LowestPriceSuffices(cfg)) => AtLowestPrice(cfg)

\* C13, amended: the same for prices that are all positive.  (At the price 0
\* an optimal profile may take more than the target energy.)
ChargeAtLowestPrice ==
    (/\ M1Optimal
     /\ LowestPriceSuffices(cfg)
     /\ \A i \in 1..cfg.TIME_PERIOD_HOURS : cfg.ELECTRICITY_COSTS[i] > 0)
        => AtLowestPrice(cfg)

\* Model 1 has returned an optimum, at positive prices, that leaves an
\* in-window slot of the high price idle and charges in the low-price slots.
ChargeAtLowestPriceWitness ==
    /\ M1Optimal
    /\ LowestPriceSuffices(cfg)
    /\ \A i \in 1..cfg.TIME_PERIOD_HOURS : cfg.ELECTRICITY_COSTS[i] > 0
    /\ \E i \in InWindowSlots(cfg) :
          i \notin LowestPriceSlots(cfg) /\ lp.x[i] = 0
    /\ \E i \in LowestPriceSlots(cfg) : lp.x[i] > 0
    /\ SumSeq(lp.x) > 0

-----------------------------------------------------------------------------
(* Properties of repeated runs *)

-----------------------------------------------------------------------------
(* Properties of the cost functions as functions of Python *)

\* C15. The cost functions are total: for any profile, within the bounds and
\* the SOC constraints or not, they do not raise and return a finite value.
CostFunctionsTotal == pc = "returned" => ret.finite

\* C16. The cost model is side-effect free: a call of cost_electricity,
\* cost_degradation or cost_charge, the first or a later one, leaves the
\* configuration constants as they were and the profile handed in unmodified.
SideEffectFree ==
    [][pc' = "returned" => (cfg' = cfg /\ arg' = arg)]_vars

\* A profile with a discharge has gone through MaxCalls calls, cost_charge
\* the last, and it is within the charger's power still.
SideEffectFreeWitness ==
    /\ pc = "returned"
    /\ ret.calls = MaxCalls
    /\ ret.f = "cost_charge"
    /\ arg \in CallProfiles(cfg)
    /\ arg[1] < 0

-----------------------------------------------------------------------------
(* Properties of the objects cell 4 builds *)

\* Row k of the linear constraint (entry k here, row k - 1 of the notebook)
\* keeps the full range [-initial_SOC*capacity, (1 - initial_SOC)*capacity].
FullRangeRow(k) ==
    /\ linear_constraint.lb[k] = -Energy(cfg.STATE_OF_CHARGE_T0, cfg.Q_KWH)
    /\ linear_constraint.ub[k] = Energy(10 - cfg.STATE_OF_CHARGE_T0, cfg.Q_KWH)

\* Row k has the target (target_SOC - initial_SOC)*capacity as lower bound.
TightenedRow(k) ==
    /\ linear_constraint.lb[k] = TargetEnergy(cfg)
    /\ linear_constraint.ub[k] = Energy(10 - cfg.STATE_OF_CHARGE_T0, cfg.Q_KWH)

\* C17 as stated: only the terminal row of t_max (the row of the sum through
\* slot t_max - 1, or the row after it) is tightened to the target; every
\* other row, the rows after t_max included, keeps the full range.
OnlyTerminalRowTightened ==
    (M2Constrained /\ ValidConfig(cfg)) =>
        \E t \in {cfg.T_MAX, cfg.T_MAX + 1} :
            /\ t \in 1..cfg.TIME_PERIOD_HOURS
            /\ TightenedRow(t)
            /\ \A k \in 1..cfg.TIME_PERIOD_HOURS : k # t => FullRangeRow(k)

\* C17, amended: the rows t_max .. 23 of the notebook (entries k > T_MAX
\* here: every row after the row of the window's last slot, none for t_max =
\* 24) are tightened to the target; the rows 0 .. t_max - 1 keep the full
\* range.
RowsFromTmaxTightened ==
    (M2Constrained /\ ValidConfig(cfg)) =>
        \A k \in 1..cfg.TIME_PERIOD_HOURS :
            IF k > cfg.T_MAX THEN TightenedRow(k) ELSE FullRangeRow(k)

\* Cell 4 has built the constraint for a window that ends two slots or more
\* before the day does: two rows are tightened, the row of the window's last
\* slot is not.
RowsFromTmaxTightenedWitness ==
    /\ M2Constrained /\ ValidConfig(cfg)
    /\ cfg.T_MAX + 2 <= cfg.TIME_PERIOD_HOURS
    /\ TightenedRow(cfg.T_MAX + 1) /\ TightenedRow(cfg.T_MAX + 2)
    /\ FullRangeRow(cfg.T_MAX)
    /\ TargetEnergy(cfg) > -Energy(cfg.STATE_OF_CHARGE_T0, cfg.Q_KWH)

\* C18. Box bound construction: for every window 0 <= t_min < t_max <= 24 the
\* two bound vectors have one entry per slot, and slot i has the bounds
\* (configured minimum, configured maximum) when t_min <= i < t_max and (0, 0)
\* otherwise, in Model 2's Bounds and in Model 1's variables alike; slot 0 is
\* chargeable when t_min = 0 and the last slot when t_max = 24.
BoxBoundConstruction ==
    /\ (M2Constrained /\ ValidConfig(cfg)) =>
          /\ Len(bounds.lb) = cfg.TIME_PERIOD_HOURS
          /\ Len(bounds.ub) = cfg.TIME_PERIOD_HOURS
          /\ \A i \in 1..cfg.TIME_PERIOD_HOURS :
                IF OutsideWindow(cfg, i)
                THEN bounds.lb[i] = 0 /\ bounds.ub[i] = 0
                ELSE /\ bounds.lb[i] = cfg.CHARGE_POWER_LOWER_BOUND_KWH
                     /\ bounds.ub[i] = cfg.CHARGE_POWER_HIGHER_BOUND_KWH
    /\ (M1Constrained /\ ValidConfig(cfg)) =>
          /\ Len(variables) = cfg.TIME_PERIOD_HOURS
          /\ \A i \in 1..cfg.TIME_PERIOD_HOURS :
                IF OutsideWindow(cfg, i)
                THEN variables[i].lb = 0 /\ variables[i].ub = 0
                ELSE /\ variables[i].lb = cfg.CHARGE_POWER_LOWER_BOUND_KWH
                     /\ variables[i].ub = cfg.CHARGE_POWER_HIGHER_BOUND_KWH

\* Cell 4 has built the bounds for the window that is the whole day, with
\* V2G: the first and the last slot have the charger's bounds.
BoxBoundConstructionWitness ==
    /\ M2Constrained /\ ValidConfig(cfg)
    /\ cfg.T_MIN = 0 /\ cfg.T_MAX = cfg.TIME_PERIOD_HOURS
    /\ cfg.CHARGE_POWER_LOWER_BOUND_KWH < 0
    /\ bounds.lb[1] = cfg.CHARGE_POWER_LOWER_BOUND_KWH
    /\ bounds.ub[1] = cfg.CHARGE_POWER_HIGHER_BOUND_KWH
    /\ bounds.lb[cfg.TIME_PERIOD_HOURS] = cfg.CHARGE_POWER_LOWER_BOUND_KWH
    /\ bounds.ub[cfg.TIME_PERIOD_HOURS] = cfg.CHARGE_POWER_HIGHER_BOUND_KWH

\* C19. The constraint matrix m is the lower-triangular matrix of ones, one
\* row and one column per slot: m[k][j] is 1 when j <= k and 0 otherwise, so
\* that row k of m @ p is the sum of the first k entries of p for every p.
LowerTriangularOnes ==
    M2Constrained =>
        /\ Len(m) = cfg.TIME_PERIOD_HOURS
        /\ \A k \in 1..Len(m) :
              /\ Len(m[k]) = cfg.TIME_PERIOD_HOURS
              /\ \A j \in 1..Len(m[k]) :
                    m[k][j] = (IF j <= k THEN 1 ELSE 0)
        /\ linear_constraint.A = m
        /\ \A x \in Profiles(cfg) : MatVec(m, x) = cumsum(x)

\* Cell 4 has built m, with a 1 in its lower left corner and a 0 in its
\* upper right one, and a profile exists whose running sums all differ.
LowerTriangularOnesWitness ==
    /\ M2Constrained /\ ValidConfig(cfg)
    /\ m[Len(m)][1] = 1 /\ m[1][Len(m)] = 0
    /\ \E x \in Profiles(cfg) :
          /\ \A k \in 1..Len(x) : x[k] # 0
          /\ MatVec(m, x)[Len(x)] = SumSeq(x)
          /\ MatVec(m, x)[1] = x[1]

\* The price-weighted energy bought and sold of a profile.
Bought(x, c) ==
    SumSeq([i \in 1..Len(x) |->
               IF x[i] > 0 THEN x[i] * c.ELECTRICITY_COSTS[i] ELSE 0])

Sold(x, c) ==
    SumSeq([i \in 1..Len(x) |->
               IF x[i] < 0 THEN (-x[i]) * c.ELECTRICITY_COSTS[i] ELSE 0])

\* C20. cost_electricity(p) is the sum over all slots of p[i]*price[i] for
\* every profile with one entry per slot, whatever the signs: it is negative
\* exactly when what is sold, weighted by price, exceeds what is bought; and
\* Model 1's objective has the same coefficient price[i] on variable i.
ElectricityCostSigned ==
    Returned("cost_electricity") =>
        /\ Len(arg) = cfg.TIME_PERIOD_HOURS
        /\ ret.value = SumSeq([i \in 1..cfg.TIME_PERIOD_HOURS |->
                                  arg[i] * cfg.ELECTRICITY_COSTS[i]])
        /\ ret.value = Bought(arg, cfg) - Sold(arg, cfg)
        /\ (ret.value < 0) <=> (Sold(arg, cfg) > Bought(arg, cfg))
        /\ \A i \in 1..cfg.TIME_PERIOD_HOURS :
              Objective(cfg)[i] = cfg.ELECTRICITY_COSTS[i]
        /\ Dot(Objective(cfg), arg) = ret.value

\* cost_electricity has returned a negative cost for a profile that buys in
\* one slot and sells more in another.
ElectricityCostSignedWitness ==
    /\ Returned("cost_electricity")
    /\ ret.value < 0
    /\ \E i \in 1..Len(arg) : arg[i] > 0
    /\ \E i \in 1..Len(arg) : arg[i] < 0

-----------------------------------------------------------------------------
(* Properties of the degradation function *)

\* What degradation_function(p_) returns as a float64: inf past the overflow
\* of np.exp, the ratio in 1e-11 otherwise.
DegradationFloat(p_, c) ==
    IF ExpIsInf(p_, c)
    THEN [inf |-> TRUE, v |-> 0]
    ELSE [inf |-> FALSE, v |-> degradation_function(p_, c)]

\* a < b on floats that may be inf: inf < inf is False.
FloatLess(a, b) == ~a.inf /\ (b.inf \/ a.v < b.v)

\* The powers degradation_function is compared at: the call levels, twice the
\* charger's power, and two magnitudes past the overflow of np.exp.
Magnitudes(c) ==
    LET hi == c.CHARGE_POWER_HIGHER_BOUND_KWH
    IN  CallLevels(c) \cup {2 * hi, -2 * hi, 15000 * hi, -15000 * hi, 20000 * hi}

\* degradation_function at the entry a of a profile and at any power q:
\* non-negative, even, and strictly increasing in the magnitude.
NonNegativeEvenIncreasing(a, q, c) ==
    /\ DegradationFloat(a, c).inf \/ DegradationFloat(a, c).v >= 0
    /\ DegradationFloat(-a, c) = DegradationFloat(a, c)
    /\ Abs(a) < Abs(q) => FloatLess(DegradationFloat(a, c), DegradationFloat(q, c))
    /\ Abs(q) < Abs(a) => FloatLess(DegradationFloat(q, c), DegradationFloat(a, c))

\* cost_degradation has returned what BATTERY_COST times the sum of the
\* ratios of all slots is, inf when a ratio is.
SumOfRatios ==
    IF \E i \in 1..Len(arg) : DegradationFloat(arg[i], cfg).inf
    THEN ~ret.finite
    ELSE /\ ret.finite
         /\ ret.value =
               (BATTERY_COST(cfg)
                   * (SumSeq([i \in 1..Len(arg) |->
                                 DegradationFloat(arg[i], cfg).v]) \div 1000))
               \div 100

\* C21, as claimed: degradation_function is non-negative, even, and strictly
\* increasing in |p| for every p, and cost_degradation(p) is the replacement
\* cost times the sum of degradation_function over all slots of p.
DegradationShape ==
    (pc = "returned" /\ ret.f = "cost_degradation"
                     /\ cfg.DEGRADATION_BASE_RATE > 0) =>
        /\ \A i \in 1..Len(arg), q \in Magnitudes(cfg) :
              NonNegativeEvenIncreasing(arg[i], q, cfg)
        /\ SumOfRatios

\* C21, the same for the powers below the overflow of np.exp.
DegradationShapeBelowOverflow ==
    (pc = "returned" /\ ret.f = "cost_degradation"
                     /\ cfg.DEGRADATION_BASE_RATE > 0) =>
        /\ \A i \in 1..Len(arg),
              q \in { r \in Magnitudes(cfg) : ~ExpIsInf(r, cfg) } :
              ~ExpIsInf(arg[i], cfg) =>
                  NonNegativeEvenIncreasing(arg[i], q, cfg)
        /\ SumOfRatios

-----------------------------------------------------------------------------
(* Properties of the charge over the slots *)

\* Every cumulative bound holds for x: row k of the linear constraint bounds
\* the sum of the first k entries.
CumulativeBoundsHold(x) ==
    \A k \in 1..Len(x) :
        /\ linear_constraint.lb[k] <= SumSeq(Prefix(x, k))
        /\ SumSeq(Prefix(x, k)) <= linear_constraint.ub[k]

\* The SOC of x decreases at a slot strictly inside the window (neither its
\* first nor its last slot), rises again later, and is at the target or above
\* it at t_max.
DipsAndRecovers(c, x) ==
    /\ \E i \in 1..Len(x) :
          /\ c.T_MIN < i - 1 /\ i - 1 < c.T_MAX - 1
          /\ x[i] < 0
          /\ \E j \in (i + 1)..Len(x) : x[j] > 0
    /\ Soc(c, x, c.T_MAX) >= Energy(c.STATE_OF_CHARGE_TCH, c.Q_KWH)

\* V2G is configured and the window leaves room for a slot of discharge and a
\* slot that makes up for it beside the slots that deliver the target.
DipFits(c) ==
    /\ c.CHARGE_POWER_LOWER_BOUND_KWH < 0
    /\ c.T_MAX - c.T_MIN >= 3
    /\ (c.T_MAX - c.T_MIN - 2) * c.CHARGE_POWER_HIGHER_BOUND_KWH
           >= Energy(c.STATE_OF_CHARGE_TCH - c.STATE_OF_CHARGE_T0, c.Q_KWH)

\* C22. Model 2 does not enforce a monotonic SOC: a profile is accepted as
\* soon as it is within the box bounds and every cumulative bound holds, and
\* with a negative lower power bound there are accepted profiles whose SOC
\* decreases at a slot strictly inside the window and rises again later to
\* meet the target at t_max.
NonMonotonicAccepted ==
    (M2Constrained /\ ValidConfig(cfg)) =>
        /\ \A x \in Profiles(cfg) :
              (InBounds(bounds, x) /\ CumulativeBoundsHold(x)) => FeasibleM2(x)
        /\ DipFits(cfg) =>
              \E x \in Profiles(cfg) : FeasibleM2(x) /\ DipsAndRecovers(cfg, x)

\* minimize has returned, for a window that ends before the last slot, a
\* feasible profile that charges, sells in the next slot and charges again to
\* the target.
NonMonotonicAcceptedWitness ==
    /\ nb = "M2" /\ pc = "cell5"
    /\ ValidConfig(cfg) /\ DipFits(cfg)
    /\ cfg.T_MAX < cfg.TIME_PERIOD_HOURS
    /\ FeasibleM2(res.x)
    /\ DipsAndRecovers(cfg, res.x)
    /\ res.x[2] < 0
    /\ Soc(cfg, res.x, 2) < Soc(cfg, res.x, 1)
    /\ Soc(cfg, res.x, 3) > Soc(cfg, res.x, 2)

\* The window at full power delivers less than the target asks for.
TargetUnreachable(c) ==
    (c.T_MAX - c.T_MIN) * c.CHARGE_POWER_HIGHER_BOUND_KWH
        < Energy(c.STATE_OF_CHARGE_TCH - c.STATE_OF_CHARGE_T0, c.Q_KWH)

\* Cell 4 has run to its end without an error and left an empty feasible set;
\* minimize then returns without the status of a minimiser found.
BuiltEmpty ==
    /\ pc = "cell4" =>
          /\ bounds = Bounds(BoxLb(cfg), BoxUb(cfg))
          /\ linear_constraint =
                LinearConstraint(Tril(cfg.TIME_PERIOD_HOURS), ConstraintLb(cfg),
                                 ConstraintUb(cfg))
          /\ out = None
          /\ \A x \in Profiles(cfg) : ~FeasibleM2(x)
    /\ pc \in {"cell5", "cell6"} => res.status # 1

\* C23, as claimed: when the target is unreachable within the window, t_max =
\* 24 included, building the bounds and the linear constraint completes
\* without error and yields an empty feasible set, and the condition shows
\* only in what the solver returns.
InfeasibilityNotDetected ==
    (nb = "M2" /\ pc \in {"cell4", "cell5", "cell6"}
               /\ ValidConfig(cfg) /\ TargetUnreachable(cfg)) => BuiltEmpty

\* C23, the same for the windows that end before the last slot (T_MAX < 24).
InfeasibilityNotDetectedBeforeLastSlot ==
    (nb = "M2" /\ pc \in {"cell4", "cell5", "cell6"}
               /\ ValidConfig(cfg) /\ TargetUnreachable(cfg)
               /\ cfg.T_MAX < cfg.TIME_PERIOD_HOURS) => BuiltEmpty

-----------------------------------------------------------------------------
(* Properties of the initial guess *)

\* The reference run has reached cell 5: p0 is bound.
ReferenceGuessed == nb = "M2" /\ cfg = Reference /\ pc \in {"cell5", "cell6"}

\* Entry i of x is within the box bounds of its slot.
InBoxAt(x, i) == bounds.lb[i] <= x[i] /\ x[i] <= bounds.ub[i]

\* Row k of the linear constraint holds for x.
RowHolds(x, k) ==
    /\ linear_constraint.lb[k] <= MatVec(linear_constraint.A, x)[k]
    /\ MatVec(linear_constraint.A, x)[k] <= linear_constraint.ub[k]

\* C24 as stated: the initial guess p0 = [1]*24 handed to the solver is a
\* feasible point of Model 2 on the reference configuration: within the box
\* bounds at every slot, outside the window too, and within every row of the
\* cumulative constraint.
InitialGuessFeasible ==
    ReferenceGuessed =>
        /\ \A i \in 1..Len(p0) : InBoxAt(p0, i)
        /\ \A k \in 1..Len(p0) : RowHolds(p0, k)
        /\ FeasibleM2(p0)

\* C24, amended: p0 = [1]*24 is not a feasible point of the reference
\* problem.  It is within the box bounds exactly at the slots of the window
\* (1 kWh lies in [-6.6, 6.6] but not in [0, 0], the bounds of the slots 0, 22
\* and 23), and within the rows 0..20 of the cumulative constraint and no
\* other (its running sum passes (1 - 0.30)*30 = 21 kWh at row 21).
InitialGuessInfeasible ==
    ReferenceGuessed =>
        /\ p0 = [i \in 1..cfg.TIME_PERIOD_HOURS |-> WH_PER_KWH]
        /\ \A i \in 1..Len(p0) : InBoxAt(p0, i) <=> ~OutsideWindow(cfg, i)
        /\ \A k \in 1..Len(p0) : RowHolds(p0, k) <=> k <= 21
        /\ ~FeasibleM2(p0)

\* minimize, started from the infeasible p0, has returned a feasible
\* minimiser for the reference configuration.
InitialGuessInfeasibleWitness ==
    /\ ReferenceGuessed /\ pc = "cell5"
    /\ p0[1] > bounds.ub[1]
    /\ MatVec(linear_constraint.A, p0)[24] > linear_constraint.ub[24]
    /\ res.status = 1
    /\ FeasibleM2(res.x)

-----------------------------------------------------------------------------
(* Model 1 and Model 2 on one configuration *)

\* The configuration c as Model 1 has it: the lower power bound 0.
Model1Of(c) == [c EXCEPT !.CHARGE_POWER_LOWER_BOUND_KWH = 0]

\* x is feasible for the linear program Model 1 builds from c.
FeasibleModel1(c, x) ==
    FeasibleLP(NumVars(Model1Of(c)), CtChargeVehicleBeforeTmax(Model1Of(c)),
               CtBoundedCharge(Model1Of(c)), x)

\* The optimal profiles of Model 1 on c, none when the program is infeasible.
Model1Optima(c) ==
    { r.x : r \in { s \in SolveResults(Model1Of(c), NumVars(Model1Of(c)),
                                       CtChargeVehicleBeforeTmax(Model1Of(c)),
                                       CtBoundedCharge(Model1Of(c)),
                                       Objective(Model1Of(c))) :
                      s.status = "OPTIMAL" } }

\* C25. For every window with t_max < 24 and a lower power bound <= 0, every
\* profile feasible for Model 1 (lower bound 0, same window, capacity, SOC
\* values and upper bound) is feasible for Model 2, and the cost_charge of the
\* Model 2 optimum is never greater than cost_charge at an optimal profile of
\* Model 1.
Model1WithinModel2 ==
    (nb = "M2" /\ ValidConfig(cfg)
               /\ cfg.CHARGE_POWER_LOWER_BOUND_KWH <= 0
               /\ cfg.T_MAX < cfg.TIME_PERIOD_HOURS) =>
        /\ pc = "cell4" =>
              \A x \in Profiles(cfg) : FeasibleModel1(cfg, x) => FeasibleM2(x)
        /\ (pc = "cell5" /\ res.status = 1) =>
              \A y \in Model1Optima(cfg) :
                  cost_charge(res.x, cfg) <= cost_charge(y, cfg)

\* minimize has returned, for a window that ends before the last slot and a
\* charger with V2G, a minimiser that sells in a slot and is strictly cheaper
\* than an optimal profile of Model 1, which is feasible for Model 2 as well.
Model1WithinModel2Witness ==
    /\ nb = "M2" /\ pc = "cell5" /\ res.status = 1
    /\ ValidConfig(cfg)
    /\ cfg.CHARGE_POWER_LOWER_BOUND_KWH < 0
    /\ cfg.T_MAX < cfg.TIME_PERIOD_HOURS
    /\ \E i \in 1..Len(res.x) : res.x[i] < 0
    /\ \E y \in Model1Optima(cfg) :
          /\ FeasibleM2(y)
          /\ cost_charge(res.x, cfg) < cost_charge(y, cfg)

\* Stepping through the slots of x in order: the charge after each of the
\* slots before t_min is the initial charge, and the charge after each of the
\* slots from t_max on is the charge reached at t_max.
FrozenOutsideWindow(c, x) ==
    /\ \A k \in 1..Len(x) :
          k <= c.T_MIN => Soc(c, x, k) = Energy(c.STATE_OF_CHARGE_T0, c.Q_KWH)
    /\ \A k \in 1..Len(x) :
          k > c.T_MAX => Soc(c, x, k) = Soc(c, x, c.T_MAX)

\* C26. In both models the SOC of any feasible profile equals
\* initial_SOC*capacity at every slot before t_min, and from slot t_max onward
\* it stays frozen at the value reached at t_max.
SocFrozenOutsideWindow ==
    /\ (M2Constrained /\ ValidConfig(cfg)) =>
          \A x \in Profiles(cfg) : FeasibleM2(x) => FrozenOutsideWindow(cfg, x)
    /\ (M1Constrained /\ ValidConfig(cfg)) =>
          \A x \in Profiles(cfg) : FeasibleM1(x) => FrozenOutsideWindow(cfg, x)

\* Model 1 has returned an optimum for a window with a slot before it and a
\* slot after it: the charge rests, rises inside the window and rests again.
SocFrozenOutsideWindowWitness ==
    /\ nb = "M1" /\ pc = "m1_solved" /\ lp.status = "OPTIMAL"
    /\ ValidConfig(cfg)
    /\ 0 < cfg.T_MIN /\ cfg.T_MAX < cfg.TIME_PERIOD_HOURS
    /\ Soc(cfg, lp.x, cfg.T_MIN) = Energy(cfg.STATE_OF_CHARGE_T0, cfg.Q_KWH)
    /\ Soc(cfg, lp.x, cfg.T_MAX) > Soc(cfg, lp.x, cfg.T_MIN)
    /\ Soc(cfg, lp.x, cfg.TIME_PERIOD_HOURS) = Soc(cfg, lp.x, cfg.T_MAX)

\* The charge of x never decreases from one slot to the next, and once it is
\* at target_SOC*capacity or above it stays there.
NonDecreasing(c, x) ==
    /\ Energy(c.STATE_OF_CHARGE_T0, c.Q_KWH) <= Soc(c, x, 1)
    /\ \A k \in 1..(Len(x) - 1) : Soc(c, x, k) <= Soc(c, x, k + 1)
    /\ \A k \in 1..Len(x) :
          Soc(c, x, k) >= Energy(c.STATE_OF_CHARGE_TCH, c.Q_KWH) =>
              \A j \in k..Len(x) :
                  Soc(c, x, j) >= Energy(c.STATE_OF_CHARGE_TCH, c.Q_KWH)

\* C27. In Model 1, where the lower power bound is 0, the SOC of every
\* feasible profile is non-decreasing from slot to slot, so once the target
\* level is reached it is never lost again.
Model1SocNonDecreasing ==
    (M1Constrained /\ ValidConfig(cfg)
                   /\ cfg.CHARGE_POWER_LOWER_BOUND_KWH = 0) =>
        \A x \in Profiles(cfg) : FeasibleM1(x) => NonDecreasing(cfg, x)

\* Model 1 has returned, with the lower power bound 0, an optimum that is at
\* the target two slots before the day ends and holds it to the end.
Model1SocNonDecreasingWitness ==
    /\ nb = "M1" /\ pc = "m1_solved" /\ lp.status = "OPTIMAL"
    /\ ValidConfig(cfg)
    /\ cfg.CHARGE_POWER_LOWER_BOUND_KWH = 0
    /\ Soc(cfg, lp.x, 1) > Energy(cfg.STATE_OF_CHARGE_T0, cfg.Q_KWH)
    /\ Soc(cfg, lp.x, cfg.TIME_PERIOD_HOURS - 2)
           = Energy(cfg.STATE_OF_CHARGE_TCH, cfg.Q_KWH)
    /\ Soc(cfg, lp.x, cfg.TIME_PERIOD_HOURS)
           = Energy(cfg.STATE_OF_CHARGE_TCH, cfg.Q_KWH)

-----------------------------------------------------------------------------
(* Properties of the two terms of the cost *)

\* n * BATTERY_COST * degradation_function(0), in the fixed point of
\* cost_degradation: what n slots at rest cost.
Baseline(n, c) ==
    (BATTERY_COST(c) * ((n * degradation_function(0, c)) \div 1000)) \div 100

ZeroProfile(x) == \A i \in 1..Len(x) : x[i] = 0

Probes(c) == {0, c.CHARGE_POWER_HIGHER_BOUND_KWH}

\* cost_electricity accounts for entry i of p: its value changes with it.
CountedByElectricity(p, c, i) ==
    \E v \in Probes(c) :
        cost_electricity([p EXCEPT ![i] = v], c) # cost_electricity(p, c)

\* cost_degradation accounts for entry i of p.
CountedByDegradation(p, c, i) ==
    \E v \in Probes(c) :
        cost_degradation([p EXCEPT ![i] = v], c) # cost_degradation(p, c)

\* C29, as claimed: for a profile of any length the two terms of cost_charge
\* account for exactly the same entries: none is counted by one term and
\* ignored by the other.
SameSlotsCounted ==
    (pc = "returned" /\ ret.f = "cost_charge") =>
        \A i \in 1..Len(arg) :
            CountedByElectricity(arg, cfg, i) <=> CountedByDegradation(arg, cfg, i)

\* C29, the same for the lists no longer than ELECTRICITY_COSTS.
SameSlotsCountedWithinDay ==
    (pc = "returned" /\ ret.f = "cost_charge"
                     /\ Len(arg) <= Len(cfg.ELECTRICITY_COSTS)) =>
        \A i \in 1..Len(arg) :
            CountedByElectricity(arg, cfg, i) /\ CountedByDegradation(arg, cfg, i)

-----------------------------------------------------------------------------
(* Properties of the names of cell 4 *)

\* bounds = Bounds(lb, ub) has run.
BoundsMade ==
    pc \in {"line134", "line138", "line139", "line140", "line141",
            "cell4", "cell5"}

\* C30. Rebinding the names lb and ub for the linear constraint after
\* Bounds(lb, ub) has been created leaves the box bounds held by the bounds
\* object unchanged: after every later statement of cell 4 the bounds object
\* holds the per-slot power limits, and at the minimize call bounds holds
\* them and linear_constraint the cumulative SOC limits.
RebindingLeavesBounds ==
    /\ BoundsMade => BoundsObject(heap) = Bounds(BoxLb(cfg), BoxUb(cfg))
    /\ pc \in {"cell4", "cell5"} =>
          /\ bounds = Bounds(BoxLb(cfg), BoxUb(cfg))
          /\ lb = ConstraintLb(cfg) /\ ub = ConstraintUb(cfg)
          /\ linear_constraint =
                LinearConstraint(Tril(cfg.TIME_PERIOD_HOURS), ConstraintLb(cfg),
                                 ConstraintUb(cfg))

\* minimize has been called and has returned a minimiser: the names lb and ub
\* are bound to other objects than the two lists the bounds object keeps, and
\* hold other values.
RebindingLeavesBoundsWitness ==
    /\ pc = "cell5" /\ res.status = 1
    /\ heap.name.lb # heap.at[heap.name.bounds].lb
    /\ heap.name.ub # heap.at[heap.name.bounds].ub
    /\ lb # bounds.lb /\ ub # bounds.ub
    /\ linear_constraint.lb = lb /\ linear_constraint.ub = ub
    /\ InBounds(bounds, res.x)

====
